---- MODULE Spec2Model ----
(***************************************************************************)
(* EPUB-Count (src/main.rs): the main thread discovers the EPUB files,     *)
(* splits them into chunks, spawns one thread per chunk, joins the threads *)
(* in spawn order and prints per-file counts and the grand total.  Each    *)
(* thread opens its files one after the other, reads the (x)html entries   *)
(* of the zip archive and counts the non-whitespace characters of their    *)
(* text.  Every `expect`/`unwrap` of the source is a panic: a panic in a   *)
(* spawned thread ends that thread, and `handle.join().unwrap()` turns it  *)
(* into a panic of the main thread (exit code 101).                        *)
(***************************************************************************)
EXTENDS Integers, Sequences, FiniteSets, TLC

VARIABLES args, fs, pc, epub_renders, chunks, threads, joined,
          total_word_count, stdout, printed_total, exit_code, calls

vars == <<args, fs, pc, epub_renders, chunks, threads, joined,
          total_word_count, stdout, printed_total, exit_code, calls>>

(***************************************************************************)
(* Bounds of the model.                                                    *)
(***************************************************************************)
\* number of paths given on the command line besides the optional first one
MaxTasks == 3
\* largest value of --cpu-nums
MaxW == 3
\* entries of the archive of book.epub
MaxEntries == 2
\* characters and tags of one document
MaxLen == 3

\* exit code of the process when the main thread panics
PanicExitCode == 101

(***************************************************************************)
(* Characters.  A document is a sequence of items: one Unicode scalar      *)
(* value of text each, or one piece of markup (a tag, a comment).          *)
(***************************************************************************)
\* the members of Unicode White_Space the model uses (U+3000 is the
\* ideographic space)
White_Space == {" ", "\n", "U+3000"}

TextChars == {"a", "U+5B57"} \cup White_Space

Markup == {"<p>"}

DocItems == TextChars \cup Markup

RECURSIVE SeqsUpTo(_, _)
SeqsUpTo(S, n) ==
    IF n = 0 THEN {<<>>}
    ELSE LET shorter == SeqsUpTo(S, n - 1)
         IN shorter \cup {Append(s, x) : s \in {t \in shorter : Len(t) = n - 1}, x \in S}

(***************************************************************************)
(* html_word_count                                                         *)
(***************************************************************************)
\* (variant: only the ASCII space separates tokens)
is_whitespace_ascii(c) == c = " "

\* char::is_whitespace, as used by str::split_whitespace
is_whitespace(c) == c \in White_Space

\* Html::parse_document(string).root_element().text().collect::<String>():
\* the text nodes in document order, markup dropped
text(string) == SelectSeq(string, LAMBDA c : c \notin Markup)

RECURSIVE split_loop(_, _, _)
split_loop(s, cur, acc) ==
    IF s = <<>>
    THEN IF cur = <<>> THEN acc ELSE Append(acc, cur)
    ELSE IF is_whitespace(Head(s))
         THEN split_loop(Tail(s), <<>>, IF cur = <<>> THEN acc ELSE Append(acc, cur))
         ELSE split_loop(Tail(s), Append(cur, Head(s)), acc)

\* str::split_whitespace().collect::<Vec<_>>(): the maximal runs of
\* non-whitespace characters
split_whitespace(s) == split_loop(s, <<>>, <<>>)

RECURSIVE join(_)
join(tokens) == IF tokens = <<>> THEN <<>> ELSE Head(tokens) \o join(Tail(tokens))

html_word_count(string) == Len(join(split_whitespace(text(string))))

(***************************************************************************)
(* Paths and names (strings).                                              *)
(***************************************************************************)
ends_with(name, suffix) ==
    /\ Len(name) >= Len(suffix)
    /\ SubSeq(name, Len(name) - Len(suffix) + 1, Len(name)) = suffix

LastIndexOf(s, c) ==
    LET idx == {i \in 1..Len(s) : SubSeq(s, i, i) = c}
    IN IF idx = {} THEN 0 ELSE CHOOSE i \in idx : \A j \in idx : j <= i

\* Path::file_name: the last component of the path
file_name(p) == SubSeq(p, LastIndexOf(p, "/") + 1, Len(p))

\* Path::extension: what follows the last dot of the file name, if the name
\* has a dot that is not its first character
has_extension(p) == LastIndexOf(file_name(p), ".") > 1

extension(p) ==
    LET f == file_name(p) IN SubSeq(f, LastIndexOf(f, ".") + 1, Len(f))

to_ascii_lowercase_char(c) ==
    CASE c = "E" -> "e" [] c = "P" -> "p" [] c = "U" -> "u" [] c = "B" -> "b"
      [] OTHER -> c

RECURSIVE to_ascii_lowercase(_)
to_ascii_lowercase(s) ==
    IF Len(s) = 0 THEN ""
    ELSE to_ascii_lowercase_char(SubSeq(s, 1, 1)) \o to_ascii_lowercase(SubSeq(s, 2, Len(s)))

eq_ignore_ascii_case(s, t) == to_ascii_lowercase(s) = to_ascii_lowercase(t)

(***************************************************************************)
(* The file system the program runs on.                                    *)
(***************************************************************************)
NoEntries == <<>>

Missing == [kind |-> "missing", openable |-> FALSE, valid_zip |-> FALSE,
            entries |-> NoEntries, children |-> <<>>]

Other == [Missing EXCEPT !.kind = "other"]

Dir(children) == [Missing EXCEPT !.kind = "dir", !.children = children]

File(openable, valid_zip, entries) ==
    [kind |-> "file", openable |-> openable, valid_zip |-> valid_zip,
     entries |-> entries, children |-> <<>>]

\* an archive entry: by_index succeeds iff readable, read_to_string succeeds
\* iff utf8, and then yields content
Entry(name, readable, utf8, content) ==
    [name |-> name, readable |-> readable, utf8 |-> utf8, content |-> content]

Doc(content) == [readable |-> TRUE, utf8 |-> TRUE, content |-> content]

Paths == {"a.epub", "b.epub", "x.epub", "locked.epub", "book.epub", "lib",
          "lib/c.EPUB", "lib/notes.txt", "nope", "sock"}

BaseFS ==
    [p \in Paths |->
       CASE p = "a.epub" ->
              File(TRUE, TRUE,
                   <<Entry("mimetype", TRUE, TRUE, <<"a">>),
                     Entry("OEBPS/ch1.xhtml", TRUE, TRUE, <<"<p>", "a", " ", "a">>)>>)
         [] p = "b.epub" ->
              File(TRUE, TRUE,
                   <<Entry("toc.xhtml", TRUE, TRUE, <<"a", "a">>),
                     Entry("ch1.html", TRUE, TRUE, <<"U+5B57", "\n", "a">>),
                     Entry("ch2.xhtml", TRUE, TRUE, <<"a">>)>>)
         [] p = "lib/c.EPUB" ->
              File(TRUE, TRUE, <<Entry("c.html", TRUE, TRUE, <<"a">>)>>)
         [] p = "x.epub" -> File(TRUE, FALSE, NoEntries)
         [] p = "locked.epub" -> File(FALSE, TRUE, NoEntries)
         [] p = "book.epub" -> File(TRUE, TRUE, NoEntries)
         [] p = "lib/notes.txt" -> File(TRUE, FALSE, NoEntries)
         [] p = "lib" -> Dir(<<"lib/c.EPUB", "lib/notes.txt">>)
         [] p = "sock" -> Other
         [] OTHER -> Missing]

(***************************************************************************)
(* zip_xhtml_read, get_epub_word_count                                     *)
(***************************************************************************)
Panicked == [panic |-> TRUE, results |-> <<>>]

Returned(results) == [panic |-> FALSE, results |-> results]

\* the filter of the loop body: the entry is read unless one of the two
\* `continue` is taken
is_content(name) ==
    /\ ends_with(name, ".xhtml") \/ ends_with(name, ".html")
    /\ ~(name = "toc.xhtml" \/ name = "toc.html")

RECURSIVE zip_loop(_, _, _)
zip_loop(entries, i, results) ==
    IF i > Len(entries) THEN Returned(results)
    ELSE LET file == entries[i] IN
         IF ~file.readable THEN Panicked
         ELSE IF ~is_content(file.name) THEN zip_loop(entries, i + 1, results)
         ELSE IF ~file.utf8 THEN Panicked
         ELSE zip_loop(entries, i + 1, Append(results, file.content))

zip_xhtml_read(file) ==
    IF ~file.valid_zip THEN Panicked ELSE zip_loop(file.entries, 1, <<>>)

RECURSIVE sum_counts(_)
sum_counts(chars) ==
    IF chars = <<>> THEN 0 ELSE html_word_count(Head(chars)) + sum_counts(Tail(chars))

(***************************************************************************)
(* split_vec                                                               *)
(***************************************************************************)
min(a, b) == IF a < b THEN a ELSE b

\* (variant: floor division plus one instead of ceiling division)
chunk_size_floor(len, n) == len \div n + 1

chunk_size_of(len, n) == (len + n - 1) \div n

\* (variant: the loop stops when fewer than chunk_size elements are left)
RECURSIVE drain_loop_full_chunks(_, _, _)
drain_loop_full_chunks(vec, chunk_size, result) ==
    IF Len(vec) < chunk_size \/ vec = <<>> THEN result
    ELSE drain_loop_full_chunks(SubSeq(vec, chunk_size + 1, Len(vec)), chunk_size,
                                Append(result, SubSeq(vec, 1, chunk_size)))

RECURSIVE drain_loop(_, _, _)
drain_loop(vec, chunk_size, result) ==
    IF vec = <<>> THEN result
    ELSE LET take == min(chunk_size, Len(vec))
         IN drain_loop(SubSeq(vec, take + 1, Len(vec)), chunk_size,
                       Append(result, SubSeq(vec, 1, take)))

split_vec(vec, n) ==
    IF n = 0 \/ vec = <<>> THEN <<vec>>
    ELSE drain_loop(vec, chunk_size_of(Len(vec), n), <<>>)

(***************************************************************************)
(* Discovery: the loop over args.files in main                             *)
(***************************************************************************)
FileData(path) == [filename |-> file_name(path), file |-> path]

is_epub(f, p) ==
    /\ f[p].kind = "file"
    /\ has_extension(p)
    /\ eq_ignore_ascii_case(extension(p), "epub")

get_all_epub_walkdir(f, path) ==
    SelectSeq(f[path].children, LAMBDA p : is_epub(f, p))

RECURSIVE map_FileData(_)
map_FileData(ps) ==
    IF ps = <<>> THEN <<>> ELSE <<FileData(Head(ps))>> \o map_FileData(Tail(ps))

RECURSIVE discover(_, _, _, _)
discover(f, walk, files, renders) ==
    IF files = <<>> THEN Returned(renders)
    ELSE LET path == Head(files)
             rest == Tail(files)
         IN CASE f[path].kind = "missing" -> discover(f, walk, rest, renders)
              [] f[path].kind = "dir" /\ walk ->
                   discover(f, walk, rest,
                            renders \o map_FileData(get_all_epub_walkdir(f, path)))
              [] f[path].kind = "dir" /\ ~walk -> discover(f, walk, rest, renders)
              [] f[path].kind = "file" ->
                   discover(f, walk, rest, Append(renders, FileData(path)))
              [] OTHER -> Panicked

(***************************************************************************)
(* The inputs of a run.                                                    *)
(***************************************************************************)
DirectPaths == {"a.epub", "b.epub", "x.epub"}

FirstPaths == {"nope", "lib", "sock", "locked.epub"}

\* `files` is required: at least one path
ArgFiles ==
    LET direct == SeqsUpTo(DirectPaths, MaxTasks)
    IN (direct \ {<<>>}) \cup {<<f>> \o s : f \in FirstPaths, s \in direct}

EntryNames == {"ch1.xhtml", "OEBPS/ch2.html", "toc.xhtml", "toc.html",
               "OEBPS/toc.xhtml", "cover.jpg"}

EntryPayloads ==
    {[readable |-> FALSE, utf8 |-> TRUE, content |-> <<>>],
     [readable |-> TRUE, utf8 |-> FALSE, content |-> <<>>],
     Doc(<<"a", " ", "a">>), Doc(<<"<p>", "U+5B57">>)}

SmallEntries ==
    {Entry(n, q.readable, q.utf8, q.content) : n \in EntryNames, q \in EntryPayloads}

EntryLists ==
    SeqsUpTo(SmallEntries, MaxEntries)
      \cup {<<Entry("ch1.xhtml", TRUE, TRUE, d)>> : d \in SeqsUpTo(DocItems, MaxLen)}

Books ==
    {File(FALSE, TRUE, NoEntries), File(TRUE, FALSE, NoEntries)}
      \cup {File(TRUE, TRUE, e) : e \in EntryLists}

(***************************************************************************)
(* State.                                                                  *)
(*   pc            where the main thread is: "discover", "spawn", "join",  *)
(*                 or after the end of the process "done", "exit", "panic" *)
(*   chunks        the value of split_vec(epub_renders, args.cpu_nums)     *)
(*   threads       the spawned threads, in spawn order                     *)
(*   joined        number of handles the join loop has consumed            *)
(*   stdout        the per-file lines printed, printed_total the last line *)
(*   exit_code     <<>> while the process runs, then <<code>>              *)
(*   calls         per task, the number of get_epub_word_count calls       *)
(***************************************************************************)
Thread(files) ==
    [files |-> files, i |-> 0, infos |-> <<>>, st |-> "run", held |-> {},
     chars |-> <<>>]

FileWordCount(filename, word_count) ==
    [filename |-> filename, word_count |-> word_count]

InitMain ==
    /\ pc = "discover"
    /\ epub_renders = <<>>
    /\ chunks = <<>>
    /\ threads = <<>>
    /\ joined = 0
    /\ total_word_count = 0
    /\ stdout = <<>>
    /\ printed_total = <<>>
    /\ exit_code = <<>>
    /\ calls = <<>>

Init ==
    /\ args \in [files : ArgFiles, walk : BOOLEAN, cpu_nums : 0..MaxW]
    /\ fs = BaseFS
    /\ InitMain

InitExtract ==
    /\ args = [files |-> <<"book.epub">>, walk |-> FALSE, cpu_nums |-> 1]
    /\ fs \in {[BaseFS EXCEPT !["book.epub"] = b] : b \in Books}
    /\ InitMain

\* split_vec returns at most max(n, 1) chunks
ThreadIds == 1..MaxW

Alive == pc \in {"spawn", "join"}

RECURSIVE total_len(_)
total_len(cs) == IF cs = <<>> THEN 0 ELSE Len(Head(cs)) + total_len(Tail(cs))

\* position in epub_renders of the task thread k works on
task_index(k) == total_len(SubSeq(chunks, 1, k - 1)) + threads[k].i + 1

(***************************************************************************)
(* The main thread.                                                        *)
(***************************************************************************)
Discover ==
    /\ pc = "discover"
    /\ LET r == discover(fs, args.walk, args.files, <<>>) IN
         IF r.panic
         THEN /\ pc' = "panic"
              /\ exit_code' = <<PanicExitCode>>
              /\ UNCHANGED <<epub_renders, chunks, calls>>
         ELSE IF r.results = <<>>
         THEN /\ pc' = "exit"
              /\ exit_code' = <<0>>
              /\ UNCHANGED <<epub_renders, chunks, calls>>
         ELSE /\ pc' = "spawn"
              /\ epub_renders' = r.results
              /\ chunks' = split_vec(r.results, args.cpu_nums)
              /\ calls' = [t \in 1..Len(r.results) |-> 0]
              /\ UNCHANGED exit_code
    /\ UNCHANGED <<args, fs, threads, joined, total_word_count, stdout, printed_total>>

Spawn ==
    /\ pc = "spawn"
    /\ Len(threads) < Len(chunks)
    /\ threads' = Append(threads, Thread(chunks[Len(threads) + 1]))
    /\ pc' = IF Len(threads) + 1 = Len(chunks) THEN "join" ELSE "spawn"
    /\ UNCHANGED <<args, fs, epub_renders, chunks, joined, total_word_count,
                   stdout, printed_total, exit_code, calls>>

\* (variant: the handles are taken last to first)
next_handle_reversed == Len(threads) - joined

\* the handle the join loop takes next
next_handle == joined + 1

RECURSIVE sum_infos(_)
sum_infos(infos) ==
    IF infos = <<>> THEN 0 ELSE Head(infos).word_count + sum_infos(Tail(infos))

\* (variant: the total is assigned instead of accumulated)
JoinOk_assign ==
    /\ pc = "join"
    /\ joined < Len(threads)
    /\ threads[next_handle].st = "done"
    /\ stdout' = stdout \o threads[next_handle].infos
    /\ total_word_count' = sum_infos(threads[next_handle].infos)
    /\ joined' = joined + 1
    /\ UNCHANGED <<args, fs, pc, epub_renders, chunks, threads, printed_total,
                   exit_code, calls>>

\* (variant: the results are taken without waiting for the thread)
JoinOk_no_wait ==
    /\ pc = "join"
    /\ joined < Len(threads)
    /\ threads[next_handle].st # "panicked"
    /\ stdout' = stdout \o threads[next_handle].infos
    /\ total_word_count' = total_word_count + sum_infos(threads[next_handle].infos)
    /\ joined' = joined + 1
    /\ UNCHANGED <<args, fs, pc, epub_renders, chunks, threads, printed_total,
                   exit_code, calls>>

JoinOk ==
    /\ pc = "join"
    /\ joined < Len(threads)
    /\ threads[next_handle].st = "done"
    /\ stdout' = stdout \o threads[next_handle].infos
    /\ total_word_count' = total_word_count + sum_infos(threads[next_handle].infos)
    /\ joined' = joined + 1
    /\ UNCHANGED <<args, fs, pc, epub_renders, chunks, threads, printed_total,
                   exit_code, calls>>

JoinPanic ==
    /\ pc = "join"
    /\ joined < Len(threads)
    /\ threads[next_handle].st = "panicked"
    /\ pc' = "panic"
    /\ exit_code' = <<PanicExitCode>>
    /\ UNCHANGED <<args, fs, epub_renders, chunks, threads, joined,
                   total_word_count, stdout, printed_total, calls>>

Finish ==
    /\ pc = "join"
    /\ joined = Len(threads)
    /\ printed_total' = <<total_word_count>>
    /\ pc' = "done"
    /\ exit_code' = <<0>>
    /\ UNCHANGED <<args, fs, epub_renders, chunks, threads, joined,
                   total_word_count, stdout, calls>>

(***************************************************************************)
(* A spawned thread: the closure of thread::spawn.                         *)
(***************************************************************************)
main_unchanged ==
    UNCHANGED <<args, fs, pc, epub_renders, chunks, joined, total_word_count,
                stdout, printed_total, exit_code>>

\* get_epub_word_count: open_file
WorkerOpen(k) ==
    /\ Alive
    /\ k \in DOMAIN threads
    /\ threads[k].st = "run"
    /\ threads[k].i < Len(threads[k].files)
    /\ LET f == threads[k].files[threads[k].i + 1] IN
         /\ calls' = [calls EXCEPT ![task_index(k)] = @ + 1]
         /\ IF fs[f.file].openable
            THEN threads' = [threads EXCEPT ![k].st = "opened",
                                            ![k].held = @ \cup {task_index(k)}]
            ELSE threads' = [threads EXCEPT ![k].st = "panicked"]
    /\ main_unchanged

\* (variant: the byte source outlives zip_xhtml_read)
WorkerExtract_keep_open(k) ==
    /\ Alive
    /\ k \in DOMAIN threads
    /\ threads[k].st = "opened"
    /\ LET f == threads[k].files[threads[k].i + 1]
           r == zip_xhtml_read(fs[f.file])
       IN IF r.panic
          THEN threads' = [threads EXCEPT ![k].st = "panicked"]
          ELSE threads' = [threads EXCEPT ![k].st = "read", ![k].chars = r.results]
    /\ UNCHANGED calls
    /\ main_unchanged

\* get_epub_word_count: zip_xhtml_read, which owns the byte source and drops
\* it when it returns or unwinds
WorkerExtract(k) ==
    /\ Alive
    /\ k \in DOMAIN threads
    /\ threads[k].st = "opened"
    /\ LET f == threads[k].files[threads[k].i + 1]
           r == zip_xhtml_read(fs[f.file])
       IN IF r.panic
          THEN threads' = [threads EXCEPT ![k].st = "panicked", ![k].held = {}]
          ELSE threads' = [threads EXCEPT ![k].st = "read", ![k].held = {},
                                          ![k].chars = r.results]
    /\ UNCHANGED calls
    /\ main_unchanged

\* get_epub_word_count: the sum of html_word_count; then infos.push
WorkerCount(k) ==
    /\ Alive
    /\ k \in DOMAIN threads
    /\ threads[k].st = "read"
    /\ LET f == threads[k].files[threads[k].i + 1]
           word_count == sum_counts(threads[k].chars)
       IN threads' = [threads EXCEPT ![k].st = "run",
                                     ![k].chars = <<>>,
                                     ![k].i = @ + 1,
                                     ![k].infos = Append(@, FileWordCount(f.filename, word_count))]
    /\ UNCHANGED calls
    /\ main_unchanged

\* the closure returns infos
WorkerReturn(k) ==
    /\ Alive
    /\ k \in DOMAIN threads
    /\ threads[k].st = "run"
    /\ threads[k].i = Len(threads[k].files)
    /\ threads' = [threads EXCEPT ![k].st = "done"]
    /\ UNCHANGED calls
    /\ main_unchanged

Worker(k) ==
    \/ WorkerOpen(k)
    \/ WorkerExtract(k)
    \/ WorkerCount(k)
    \/ WorkerReturn(k)

Next ==
    \/ Discover
    \/ Spawn
    \/ JoinOk
    \/ JoinPanic
    \/ Finish
    \/ \E k \in ThreadIds : WorkerOpen(k)
    \/ \E k \in ThreadIds : WorkerExtract(k)
    \/ \E k \in ThreadIds : WorkerCount(k)
    \/ \E k \in ThreadIds : WorkerReturn(k)

Spec == Init /\ [][Next]_vars

SpecExtract == InitExtract /\ [][Next]_vars

TypeOK ==
    /\ pc \in {"discover", "spawn", "join", "done", "exit", "panic"}
    /\ joined \in 0..Len(threads)
    /\ Len(threads) <= Len(chunks)

(***************************************************************************)
(* Definitions used to state the properties.                               *)
(***************************************************************************)
Terminated == pc \in {"done", "exit", "panic"}

Range(s) == {s[i] : i \in DOMAIN s}

CountOf(s, x) == Cardinality({i \in DOMAIN s : s[i] = x})

SameBag(s, t) == \A x \in Range(s) \cup Range(t) : CountOf(s, x) = CountOf(t, x)

RECURSIVE Flatten(_)
Flatten(ss) == IF ss = <<>> THEN <<>> ELSE Head(ss) \o Flatten(Tail(ss))

\* smallest q with q * b >= a
Ceil(a, b) == CHOOSE q \in 0..a : q * b >= a /\ (q - 1) * b < a

Processable(path) == fs[path].openable /\ ~zip_xhtml_read(fs[path]).panic

\* the count of a processable file
ExpectedCount(path) == sum_counts(zip_xhtml_read(fs[path]).results)

\* what one thread working through `tasks` in order returns
SequentialRun(tasks) ==
    [t \in 1..Len(tasks) |->
       FileWordCount(tasks[t].filename, ExpectedCount(tasks[t].file))]

\* the lines of the run with --cpu-nums 1: one thread per chunk of
\* split_vec(epub_renders, 1), joined in order
RunWithOneWorker == SequentialRun(Flatten(split_vec(epub_renders, 1)))

AllProcessable == \A t \in DOMAIN epub_renders : Processable(epub_renders[t].file)

IsRunning(k) == threads[k].st \notin {"done", "panicked"}

(***************************************************************************)
(* C1: when every task is processable, a run with any worker count and any *)
(* interleaving prints the same multiset of (filename, word_count) lines   *)
(* and the same grand total as the run with one worker, and the grand      *)
(* total is the sum of the counts of the lines printed.                    *)
(***************************************************************************)
C1_ScalingInvariance ==
    (Terminated /\ epub_renders # <<>> /\ AllProcessable) =>
        /\ pc = "done"
        /\ SameBag(stdout, RunWithOneWorker)
        /\ printed_total = <<sum_infos(RunWithOneWorker)>>
        /\ printed_total = <<sum_infos(stdout)>>

C1_Witness ==
    /\ pc = "done"
    /\ AllProcessable
    /\ args.cpu_nums >= 2
    /\ Len(threads) >= 2
    /\ Len(epub_renders) >= 3
    /\ \E i, j \in DOMAIN stdout : stdout[i].word_count # stdout[j].word_count
    /\ printed_total # <<0>>

(***************************************************************************)
(* C3: for every task list and every worker count (also one greater than   *)
(* the number of tasks) the chunks of split_vec concatenate to the task    *)
(* list, thread k is handed chunk k and nothing else, and no task is       *)
(* processed more than once.                                               *)
(***************************************************************************)
C3_PartitionComplete ==
    /\ Flatten(chunks) = epub_renders
    /\ \A k \in 1..Len(threads) : threads[k].files = chunks[k]
    /\ pc \in {"join", "done"} => Len(threads) = Len(chunks)
    /\ \A t \in DOMAIN calls : calls[t] <= 1
    /\ DOMAIN calls = DOMAIN epub_renders
    /\ pc = "done" => \A t \in DOMAIN calls : calls[t] = 1

\* more workers than tasks: 2 tasks, 3 workers, every task processed once
C3_Witness ==
    /\ pc = "done"
    /\ args.cpu_nums > Len(epub_renders)
    /\ Len(chunks) >= 2
    /\ \A t \in DOMAIN calls : calls[t] = 1

(***************************************************************************)
(* C6: the per-file lines are printed in the order of the task list,       *)
(* whatever the worker count and the order in which the threads finish:    *)
(* what is printed is always a prefix of the lines of the task list in     *)
(* order, each thread's results are in the order of its chunk, and a run   *)
(* that completes has printed one line per task.                           *)
(***************************************************************************)
C6_SubmissionOrder ==
    /\ Len(stdout) <= Len(epub_renders)
    /\ stdout = SubSeq(SequentialRun(epub_renders), 1, Len(stdout))
    /\ \A k \in 1..Len(threads) :
          threads[k].infos = SubSeq(SequentialRun(threads[k].files), 1, threads[k].i)
    /\ pc = "done" => Len(stdout) = Len(epub_renders)

\* lines are out although a later thread finished before an earlier one
C6_Witness ==
    /\ pc = "join"
    /\ joined >= 1
    /\ joined < Len(threads)
    /\ stdout # <<>>
    /\ IsRunning(joined + 1)
    /\ \E k \in (joined + 2)..Len(threads) : threads[k].st = "done"

(***************************************************************************)
(* C8 as stated: for N >= 1 tasks and W >= 1 there are W contiguous chunks *)
(* of at most ceil(N / W) tasks, only trailing chunks being smaller or     *)
(* empty, and one thread per chunk.                                        *)
(***************************************************************************)
ChunkStart(k, size) == (k - 1) * size + 1

C8_Original ==
    (pc \in {"join", "done"} /\ args.cpu_nums >= 1) =>
        LET N == Len(epub_renders)
            W == args.cpu_nums
            size == Ceil(N, W)
        IN /\ Len(chunks) = W
           /\ Len(threads) = W
           /\ \A k \in 1..Len(chunks) :
                 /\ Len(chunks[k]) <= size
                 /\ chunks[k] = SubSeq(epub_renders, ChunkStart(k, size),
                                       min(k * size, N))
                 /\ threads[k].files = chunks[k]

(***************************************************************************)
(* C8 amended: for N >= 1 tasks and W >= 1 there are ceil(N / chunk_size)  *)
(* chunks, at most W, with chunk_size = ceil(N / W); the chunks are        *)
(* contiguous runs of the input, none is empty, every chunk but the last   *)
(* has exactly chunk_size tasks, and one thread is started per chunk.      *)
(***************************************************************************)
C8_Amended ==
    (pc \in {"join", "done"} /\ args.cpu_nums >= 1) =>
        LET N == Len(epub_renders)
            W == args.cpu_nums
            size == Ceil(N, W)
        IN /\ Len(chunks) = Ceil(N, size)
           /\ Len(chunks) <= W
           /\ Len(threads) = Len(chunks)
           /\ \A k \in 1..Len(chunks) :
                 /\ Len(chunks[k]) >= 1
                 /\ k < Len(chunks) => Len(chunks[k]) = size
                 /\ chunks[k] = SubSeq(epub_renders, ChunkStart(k, size),
                                       min(k * size, N))
                 /\ threads[k].files = chunks[k]

\* 4 tasks, 3 workers: two chunks of 2
C8_Witness ==
    /\ pc = "join"
    /\ args.cpu_nums = 3
    /\ Len(epub_renders) = 4
    /\ Len(chunks) = 2
    /\ Len(threads) = 2

(***************************************************************************)
(* C2: when tasks fail because their file cannot be opened or is not a     *)
(* valid archive, the run still prints the line of every other task, the   *)
(* failed files add 0 to the grand total, the grand total is printed and   *)
(* the exit code is 0.                                                     *)
(***************************************************************************)
OpenOrFormatFailure(path) == ~fs[path].openable \/ ~fs[path].valid_zip

GoodTasks == SelectSeq(epub_renders, LAMBDA f : Processable(f.file))

C2_FailureIsolated ==
    (/\ Terminated
     /\ epub_renders # <<>>
     /\ \E t \in DOMAIN epub_renders : OpenOrFormatFailure(epub_renders[t].file)
     /\ \A t \in DOMAIN epub_renders :
           Processable(epub_renders[t].file) \/ OpenOrFormatFailure(epub_renders[t].file))
    => /\ exit_code = <<0>>
       /\ printed_total = <<sum_infos(SequentialRun(GoodTasks))>>
       /\ \A r \in Range(SequentialRun(GoodTasks)) :
             CountOf(stdout, r) >= CountOf(SequentialRun(GoodTasks), r)

(***************************************************************************)
(* C9 as stated: the grand total changes, and a per-file line is printed,  *)
(* only when no thread is still running, and no thread writes the total.   *)
(***************************************************************************)
ThreadStep == \E k \in ThreadIds : Worker(k)

Aggregates == total_word_count' # total_word_count \/ stdout' # stdout

RunningThreads == {k \in 1..Len(threads) : IsRunning(k)}

RECURSIVE held_count(_)
held_count(ts) ==
    IF ts = <<>> THEN 0 ELSE Cardinality(Head(ts).held) + held_count(Tail(ts))

C10_BoundedByteSources ==
    /\ pc \in {"discover", "exit"} => threads = <<>> /\ \A t \in DOMAIN calls : calls[t] = 0
    /\ \A k \in 1..Len(threads) :
          /\ Cardinality(threads[k].held) <= 1
          /\ threads[k].st # "opened" => threads[k].held = {}
          /\ threads[k].st = "opened" => threads[k].held = {task_index(k)}
    /\ held_count(threads) <= Cardinality(RunningThreads)
    /\ args.cpu_nums >= 1 => Cardinality(RunningThreads) <= args.cpu_nums
    /\ \A k, l \in 1..Len(threads) :
          k # l => threads[k].held \cap threads[l].held = {}

\* two threads hold a byte source each, one of them for its second task
C10_Witness ==
    \E k, l \in 1..Len(threads) :
        /\ k # l
        /\ threads[k].st = "opened"
        /\ threads[l].st = "opened"
        /\ threads[k].i >= 1
        /\ held_count(threads) = 2

(***************************************************************************)
(* Properties of the extraction of one archive (SpecExtract).              *)
(***************************************************************************)
Book == fs["book.epub"]

\* the last component of an entry name
BaseName(name) == SubSeq(name, LastIndexOf(name, "/") + 1, Len(name))

NonWhitespaceCount(t) == Cardinality({i \in DOMAIN t : t[i] \notin White_Space})

RECURSIVE SumSeq(_)
SumSeq(ns) == IF ns = <<>> THEN 0 ELSE Head(ns) + SumSeq(Tail(ns))

SumOver(entries, Pick(_), Value(_)) ==
    SumSeq([i \in 1..Len(entries) |->
              IF Pick(entries[i]) THEN Value(entries[i]) ELSE 0])

EntryCount(e) == html_word_count(e.content)

(***************************************************************************)
(* C4: an entry adds to the count of the file iff its name ends in .xhtml  *)
(* or .html and its base name is neither toc.xhtml nor toc.html; a         *)
(* table-of-contents entry in a subdirectory adds nothing.                 *)
(***************************************************************************)
QualifiesByBaseName(e) ==
    /\ ends_with(e.name, ".xhtml") \/ ends_with(e.name, ".html")
    /\ BaseName(e.name) \notin {"toc.xhtml", "toc.html"}

C4_FilterByBaseName ==
    pc = "done" =>
        stdout = <<FileWordCount("book.epub",
                                 SumOver(Book.entries, QualifiesByBaseName, EntryCount))>>

(***************************************************************************)
(* C5: html_word_count is the number of characters of the text that are    *)
(* not whitespace; the rejoined string holds no whitespace, and removing   *)
(* whitespace from it again changes neither the string nor the count.      *)
(***************************************************************************)
WhitespaceRemovalLaw(string) ==
    LET t == text(string)
        once == join(split_whitespace(t))
        twice == join(split_whitespace(once))
    IN /\ html_word_count(string) = NonWhitespaceCount(t)
       /\ Len(once) = NonWhitespaceCount(t)
       /\ \A i \in DOMAIN once : once[i] \notin White_Space
       /\ twice = once
       /\ Len(twice) = html_word_count(string)

C5_WhitespaceRemoval ==
    /\ \A k \in 1..Len(threads) :
          \A d \in DOMAIN threads[k].chars : WhitespaceRemovalLaw(threads[k].chars[d])
    /\ \A r \in DOMAIN stdout :
          stdout[r].word_count =
              SumOver(Book.entries, LAMBDA e : is_content(e.name),
                      LAMBDA e : NonWhitespaceCount(text(e.content)))

\* a document with whitespace (U+3000) between two characters was counted
C5_Witness ==
    /\ pc = "done"
    /\ Book.entries = <<Entry("ch1.xhtml", TRUE, TRUE, <<"a", "U+3000", "U+5B57">>)>>
    /\ stdout = <<FileWordCount("book.epub", 2)>>

(***************************************************************************)
(* C7: when the payload of a qualifying entry is not valid text, the entry *)
(* is skipped: the file still gets a line whose count is the sum over the  *)
(* entries that decode, and the run ends normally.                         *)
(***************************************************************************)
DecodableContent(e) == is_content(e.name) /\ e.utf8

C7_EntrySkipped ==
    (/\ Terminated
     /\ Book.openable /\ Book.valid_zip
     /\ \A i \in DOMAIN Book.entries : Book.entries[i].readable
     /\ \E i \in DOMAIN Book.entries :
           is_content(Book.entries[i].name) /\ ~Book.entries[i].utf8)
    => /\ pc = "done"
       /\ exit_code = <<0>>
       /\ stdout = <<FileWordCount("book.epub",
                                   SumOver(Book.entries, DecodableContent, EntryCount))>>
       /\ printed_total = <<SumOver(Book.entries, DecodableContent, EntryCount)>>

====
